---- MODULE Spec2Model ----
(***************************************************************************)
(* Model of my_server.py: the module-level construction of the FastMCP     *)
(* server (three middlewares, seventeen tools, one resource, one prompt),  *)
(* parse_arguments(), main() and the script entry branch.                  *)
(*                                                                         *)
(* One action per statement that changes state.  The external calls        *)
(* (importlib.metadata.version, run_post_install, mcp.run) are modelled by *)
(* their observable outcome: a returned value or a raised exception.       *)
(***************************************************************************)
EXTENDS Integers, Sequences, FiniteSets, TLC

VARIABLES
    pc,          \* position of the process in the program
    ip,          \* index of the next module-level statement
    runName,     \* value of __name__ while the module body executes
    argv,        \* command line: each option is <<>> (absent) or <<value>>
    args,        \* the namespace returned by parse_arguments()
    middleware,  \* mcp's middleware chain, in add_middleware order
    regLog,      \* every register_tool/resource/prompt call, in order
    runCalls,    \* every mcp.run call: the keyword arguments it received
    versionRead, \* "unset", "ok" or "unknown" (the printed version line)
    success,     \* value returned by run_post_install(), or NoValue
    raised,      \* class of the exception the provisioning step raised
    exc,         \* exception in flight: [cls, code], or NoExc
    errorLog,    \* set of logger.error messages emitted
    exitCode,    \* process exit status: <<>> while running, else <<code>>
    mainCalled,  \* TRUE once main() has been entered
    uncaught     \* class of an exception that left main() other than SystemExit

vars == <<pc, ip, runName, argv, args, middleware, regLog, runCalls,
          versionRead, success, raised, exc, errorLog, exitCode, mainCalled,
          uncaught>>

NoValue == "<no value>"
NoExc   == [cls |-> "<none>", code |-> -1]
NoExit  == <<>>
NoArgs  == [post_install |-> FALSE, transport |-> "<unparsed>",
            host |-> "<unparsed>", port |-> -1, path |-> "<unparsed>"]

-----------------------------------------------------------------------------
(* Module-level statements, lines 64-99 and 184-185.                       *)

ToolModules ==
    << "blur", "change_color", "config", "crop", "detect", "draw_arrows",
       "draw_circle", "draw_lines", "draw_rectangle", "draw_text", "fill",
       "find", "metainfo", "ocr", "overlay", "resize", "rotate" >>

MiddlewareOrderSwapped ==
    << "validation", "error_handling", "telemetry" >>

MiddlewareOrder ==
    << "validation", "telemetry", "error_handling" >>

Stmt(op, name) == [op |-> op, name |-> name]

ModuleBodyGuardEarly ==
    [i \in 1..Len(MiddlewareOrder) |-> Stmt("add_middleware", MiddlewareOrder[i])]
    \o << Stmt("if_name_main", "mcp.run") >>
    \o [i \in 1..Len(ToolModules) |-> Stmt("register_tool", ToolModules[i])]
    \o << Stmt("register_resource", "models"),
          Stmt("register_prompt", "remove_background") >>

ModuleBodyDuplicateTool ==
    [i \in 1..Len(MiddlewareOrder) |-> Stmt("add_middleware", MiddlewareOrder[i])]
    \o [i \in 1..Len(ToolModules) |-> Stmt("register_tool", ToolModules[i])]
    \o << Stmt("register_tool", "blur"),
          Stmt("register_resource", "models"),
          Stmt("register_prompt", "remove_background"),
          Stmt("if_name_main", "mcp.run") >>

ModuleBody ==
    [i \in 1..Len(MiddlewareOrder) |-> Stmt("add_middleware", MiddlewareOrder[i])]
    \o [i \in 1..Len(ToolModules) |-> Stmt("register_tool", ToolModules[i])]
    \o << Stmt("register_resource", "models"),
          Stmt("register_prompt", "remove_background"),
          Stmt("if_name_main", "mcp.run") >>

-----------------------------------------------------------------------------
(* Python values and exceptions.                                           *)

\* Values run_post_install() may return.
ReturnValues == {"True", "False", "None", "0", "1"}

TruthyUnlessFalse(v) == v # "False"

\* bool(v), as "if not success" evaluates it
Truthy(v) == v \notin {"False", "None", "0"}

\* Direct base class of each exception class involved.
BaseOf ==
    [ x \in {"BaseException", "Exception", "SystemExit", "ImportError",
             "ModuleNotFoundError", "PackageNotFoundError", "RuntimeError"} |->
        CASE x = "BaseException"        -> "BaseException"
          [] x = "Exception"            -> "BaseException"
          [] x = "SystemExit"           -> "BaseException"
          [] x = "ImportError"          -> "Exception"
          [] x = "ModuleNotFoundError"  -> "ImportError"
          [] x = "PackageNotFoundError" -> "ModuleNotFoundError"
          [] x = "RuntimeError"         -> "Exception" ]

RECURSIVE IsSubclass(_, _)
IsSubclass(cls, base) ==
    IF cls = base THEN TRUE
    ELSE IF BaseOf[cls] = cls THEN FALSE
    ELSE IsSubclass(BaseOf[cls], base)

ExceptBaseExceptionMatches(cls) == IsSubclass(cls, "BaseException")

ExceptImportErrorMatches(cls) == IsSubclass(cls, "ImportError")

\* "except Exception as e" (lines 149 and 164)
ExceptExceptionMatches(cls) == IsSubclass(cls, "Exception")

\* What the import of run_post_install may raise.
ImportRaises == {"ModuleNotFoundError", "ImportError"}
\* What the call of run_post_install may raise.
CallRaises == {"RuntimeError", "ImportError"}

-----------------------------------------------------------------------------
(* parse_arguments(), lines 102-135.                                       *)

Digits == <<"0", "1", "2", "3", "4", "5", "6", "7", "8", "9">>

IsDigit(c) == \E d \in 1..10 : Digits[d] = c

DigitValue(c) == (CHOOSE d \in 1..10 : Digits[d] = c) - 1

\* int(text) succeeds: a non-empty run of decimal digits
IsIntText(text) == Len(text) > 0 /\ \A i \in 1..Len(text) : IsDigit(text[i])

RECURSIVE IntOf(_)
IntOf(text) ==
    IF Len(text) = 0 THEN 0
    ELSE 10 * IntOf(SubSeq(text, 1, Len(text) - 1)) + DigitValue(text[Len(text)])

TransportChoices == {"stdio", "streamable-http", "sse"}

DefaultTransport == "stdio"
DefaultHost == "127.0.0.1"
DefaultPort == 8000
DefaultPath == "/mcp"

\* argparse rejects the command line (parser.error -> sys.exit(2))
ArgsAccepted(av) ==
    /\ av.transport = <<>> \/ av.transport[1] \in TransportChoices
    /\ av.port = <<>> \/ IsIntText(av.port[1])

OptionOr(opt, default) == IF opt = <<>> THEN default ELSE opt[1]

parse_arguments_port_ignored(av) ==
    [ post_install |-> av.post_install,
      transport    |-> OptionOr(av.transport, DefaultTransport),
      host         |-> OptionOr(av.host, DefaultHost),
      port         |-> DefaultPort,
      path         |-> OptionOr(av.path, DefaultPath) ]

parse_arguments(av) ==
    [ post_install |-> av.post_install,
      transport    |-> OptionOr(av.transport, DefaultTransport),
      host         |-> OptionOr(av.host, DefaultHost),
      port         |-> IF av.port = <<>> THEN DefaultPort ELSE IntOf(av.port[1]),
      path         |-> OptionOr(av.path, DefaultPath) ]

\* Command lines explored.
TransportInputs == {"stdio", "streamable-http", "sse", "websocket"}
HostInputs == {"0.0.0.0"}
PortInputs == { <<"9", "0", "9", "0">>, <<"8", "0">>, <<"8", "0", "a">> }
PathInputs == {"/api"}

Optional(S) == {<<>>} \cup { <<v>> : v \in S }

ArgvSpace ==
    [ post_install : BOOLEAN,
      transport    : Optional(TransportInputs),
      host         : Optional(HostInputs),
      port         : Optional(PortInputs),
      path         : Optional(PathInputs) ]

-----------------------------------------------------------------------------
(* mcp.run keyword arguments, lines 172-181.                               *)

NoKwargs == [k \in {} |-> 0]

IsHttpTransportAlways(a) == TRUE

\* "args.transport in ['streamable-http', 'sse']"
IsHttpTransport(a) == a.transport \in {"streamable-http", "sse"}

RunKwargs(a) ==
    IF IsHttpTransport(a)
    THEN [transport |-> a.transport, host |-> a.host,
          port |-> a.port, path |-> a.path]
    ELSE NoKwargs

-----------------------------------------------------------------------------
Init ==
    /\ pc = "load"
    /\ ip = 1
    /\ runName \in {"__main__", "imagesorcery_mcp.server"}
    /\ argv \in ArgvSpace
    /\ args = NoArgs
    /\ middleware = <<>>
    /\ regLog = <<>>
    /\ runCalls = <<>>
    /\ versionRead = "unset"
    /\ success = NoValue
    /\ raised = NoValue
    /\ exc = NoExc
    /\ errorLog = {}
    /\ exitCode = NoExit
    /\ mainCalled = FALSE
    /\ uncaught = NoValue

\* The interpreter compiles the file before running any of it.  Line 185
\* holds U+3002 where the attribute dot belongs: CPython rejects the whole
\* file (SyntaxError, status 1); a reader that folds the character to "."
\* runs the module with line 185 as mcp.run().  Both outcomes are kept.
LoadModule ==
    /\ pc = "load"
    /\ \/ /\ pc' = "rejected"
          /\ exitCode' = <<1>>
          /\ uncaught' = "SyntaxError"
       \/ /\ pc' = "module"
          /\ UNCHANGED <<exitCode, uncaught>>
    /\ UNCHANGED <<ip, runName, argv, args, middleware, regLog, runCalls,
                   versionRead, success, raised, exc, errorLog, mainCalled>>

AtStmt(op) ==
    /\ pc = "module"
    /\ ip <= Len(ModuleBody)
    /\ ModuleBody[ip].op = op

\* mcp.add_middleware(...), lines 65, 68, 75
AddMiddleware ==
    /\ AtStmt("add_middleware")
    /\ middleware' = Append(middleware, ModuleBody[ip].name)
    /\ ip' = ip + 1
    /\ UNCHANGED <<pc, runName, argv, args, regLog, runCalls, versionRead,
                   success, raised, exc, errorLog, exitCode, mainCalled,
                   uncaught>>

Register(op, kind) ==
    /\ AtStmt(op)
    /\ regLog' = Append(regLog, [kind |-> kind, name |-> ModuleBody[ip].name])
    /\ ip' = ip + 1
    /\ UNCHANGED <<pc, runName, argv, args, middleware, runCalls, versionRead,
                   success, raised, exc, errorLog, exitCode, mainCalled,
                   uncaught>>

\* <module>.register_tool(mcp), lines 77-93
RegisterTool == Register("register_tool", "tool")

\* models.register_resource(mcp), line 96
RegisterResource == Register("register_resource", "resource")

\* remove_background.register_prompt(mcp), line 99
RegisterPrompt == Register("register_prompt", "prompt")

\* if __name__ == "__main__": mcp.run()      (lines 184-185)
ScriptEntry ==
    /\ AtStmt("if_name_main")
    /\ IF runName = "__main__"
       THEN /\ runCalls' = Append(runCalls, NoKwargs)
            /\ pc' = "serving"
            /\ ip' = ip
       ELSE /\ ip' = ip + 1
            /\ UNCHANGED <<pc, runCalls>>
    /\ UNCHANGED <<runName, argv, args, middleware, regLog, versionRead,
                   success, raised, exc, errorLog, exitCode, mainCalled,
                   uncaught>>

\* The module body has run to its end under import.
ModuleLoaded ==
    /\ pc = "module"
    /\ ip > Len(ModuleBody)
    /\ pc' = "imported"
    /\ UNCHANGED <<ip, runName, argv, args, middleware, regLog, runCalls,
                   versionRead, success, raised, exc, errorLog, exitCode,
                   mainCalled, uncaught>>

\* The importer (console entry point, tests) calls main(), line 138.
CallMain ==
    /\ pc = "imported"
    /\ mainCalled' = TRUE
    /\ pc' = "parse"
    /\ UNCHANGED <<ip, runName, argv, args, middleware, regLog, runCalls,
                   versionRead, success, raised, exc, errorLog, exitCode,
                   uncaught>>

SystemExit(code) == [cls |-> "SystemExit", code |-> code]
Raise(cls) == [cls |-> cls, code |-> -1]

\* args = parse_arguments(), line 140
ParseArguments ==
    /\ pc = "parse"
    /\ IF ArgsAccepted(argv)
       THEN /\ args' = parse_arguments(argv)
            /\ pc' = "version"
            /\ exc' = exc
       ELSE /\ exc' = SystemExit(2)
            /\ pc' = "propagate"
            /\ args' = args
    /\ UNCHANGED <<ip, runName, argv, middleware, regLog, runCalls,
                   versionRead, success, raised, errorLog, exitCode,
                   mainCalled, uncaught>>

AfterVersion == IF args.post_install THEN "post_install_import" ELSE "serve"

\* The version lookup without its try/except: a failure leaves main().
GetVersionUnguarded ==
    /\ pc = "version"
    /\ \/ /\ versionRead' = "ok"
          /\ pc' = AfterVersion
          /\ exc' = exc
       \/ /\ exc' = Raise("PackageNotFoundError")
          /\ pc' = "propagate"
          /\ versionRead' = versionRead
    /\ UNCHANGED <<ip, runName, argv, args, middleware, regLog, runCalls,
                   success, raised, errorLog, exitCode, mainCalled, uncaught>>

\* try: version("imagesorcery-mcp") except Exception, lines 145-151
GetVersion ==
    /\ pc = "version"
    /\ \/ /\ versionRead' = "ok"
          /\ pc' = AfterVersion
          /\ UNCHANGED <<errorLog, exc>>
       \/ IF ExceptExceptionMatches("PackageNotFoundError")
          THEN /\ errorLog' = errorLog \cup {"Could not read version from package metadata"}
               /\ versionRead' = "unknown"
               /\ pc' = AfterVersion
               /\ exc' = exc
          ELSE /\ exc' = Raise("PackageNotFoundError")
               /\ pc' = "propagate"
               /\ UNCHANGED <<errorLog, versionRead>>
    /\ UNCHANGED <<ip, runName, argv, args, middleware, regLog, runCalls,
                   success, raised, exitCode, mainCalled, uncaught>>

\* from imagesorcery_mcp.scripts.post_install import run_post_install, line 157
ImportPostInstall ==
    /\ pc = "post_install_import"
    /\ \/ /\ pc' = "post_install_call"
          /\ UNCHANGED <<exc, raised>>
       \/ \E cls \in ImportRaises :
             /\ exc' = Raise(cls)
             /\ raised' = cls
             /\ pc' = "except"
    /\ UNCHANGED <<ip, runName, argv, args, middleware, regLog, runCalls,
                   versionRead, success, errorLog, exitCode, mainCalled,
                   uncaught>>

\* success = run_post_install(), line 158
RunPostInstall ==
    /\ pc = "post_install_call"
    /\ \/ \E v \in ReturnValues :
             /\ success' = v
             /\ pc' = "check_success"
             /\ UNCHANGED <<exc, raised>>
       \/ \E cls \in CallRaises :
             /\ exc' = Raise(cls)
             /\ raised' = cls
             /\ pc' = "except"
             /\ UNCHANGED success
    /\ UNCHANGED <<ip, runName, argv, args, middleware, regLog, runCalls,
                   versionRead, errorLog, exitCode, mainCalled, uncaught>>

\* if not success: ... sys.exit(1) / sys.exit(0), lines 159-163
CheckSuccess ==
    /\ pc = "check_success"
    /\ IF ~Truthy(success)
       THEN /\ errorLog' = errorLog \cup {"Post-installation tasks failed"}
            /\ exc' = SystemExit(1)
       ELSE /\ errorLog' = errorLog
            /\ exc' = SystemExit(0)
    /\ pc' = "except"
    /\ UNCHANGED <<ip, runName, argv, args, middleware, regLog, runCalls,
                   versionRead, success, raised, exitCode, mainCalled,
                   uncaught>>

\* except Exception as e: logger.error(...); sys.exit(1), lines 164-166
ExceptException ==
    /\ pc = "except"
    /\ IF ExceptExceptionMatches(exc.cls)
       THEN /\ errorLog' = errorLog \cup {"Error during post-installation"}
            /\ exc' = SystemExit(1)
       ELSE UNCHANGED <<errorLog, exc>>
    /\ pc' = "propagate"
    /\ UNCHANGED <<ip, runName, argv, args, middleware, regLog, runCalls,
                   versionRead, success, raised, exitCode, mainCalled,
                   uncaught>>

\* An exception leaves main(): SystemExit sets the status, any other class
\* ends the process with a traceback and status 1.
ProcessExit ==
    /\ pc = "propagate"
    /\ IF exc.cls = "SystemExit"
       THEN /\ exitCode' = <<exc.code>>
            /\ uncaught' = uncaught
       ELSE /\ exitCode' = <<1>>
            /\ uncaught' = exc.cls
    /\ pc' = "exited"
    /\ UNCHANGED <<ip, runName, argv, args, middleware, regLog, runCalls,
                   versionRead, success, raised, exc, errorLog, mainCalled>>

\* mcp.run(transport=..., host=..., port=..., path=...) or mcp.run(),
\* lines 172-181.  The call blocks in the server loop.
McpRun ==
    /\ pc = "serve"
    /\ runCalls' = Append(runCalls, RunKwargs(args))
    /\ pc' = "serving"
    /\ UNCHANGED <<ip, runName, argv, args, middleware, regLog, versionRead,
                   success, raised, exc, errorLog, exitCode, mainCalled,
                   uncaught>>

Next ==
    \/ LoadModule
    \/ AddMiddleware
    \/ RegisterTool
    \/ RegisterResource
    \/ RegisterPrompt
    \/ ScriptEntry
    \/ ModuleLoaded
    \/ CallMain
    \/ ParseArguments
    \/ GetVersion
    \/ ImportPostInstall
    \/ RunPostInstall
    \/ CheckSuccess
    \/ ExceptException
    \/ ProcessExit
    \/ McpRun

Spec == Init /\ [][Next]_vars

-----------------------------------------------------------------------------
(* Properties.                                                             *)

Port9090 == <<"9", "0", "9", "0">>
Port80   == <<"8", "0">>

\* The keyword arguments the command line asks for, read off argv with the
\* defaults of the CLI table (127.0.0.1, 8000, /mcp).
RequestedKwargs ==
    [ transport |-> argv.transport[1],
      host      |-> IF argv.host = <<>> THEN "127.0.0.1" ELSE argv.host[1],
      port      |-> IF argv.port = <<>> THEN 8000
                    ELSE IF argv.port[1] = Port9090 THEN 9090
                    ELSE IF argv.port[1] = Port80 THEN 80 ELSE -1,
      path      |-> IF argv.path = <<>> THEN "/mcp" ELSE argv.path[1] ]

ServedFromMain == mainCalled /\ pc = "serving"

\* C1: with --post-install set and run_post_install() returning a false
\* value, the process exits with code 1 and mcp.run is never called, for
\* every --transport, --host, --port and --path.
C1_FailedProvisioningExitsOne ==
    (mainCalled /\ argv.post_install /\ success \in {"False", "None", "0"}) =>
        /\ runCalls = <<>>
        /\ pc \in {"check_success", "except", "propagate", "exited"}
        /\ exitCode \in {NoExit, <<1>>}
        /\ pc = "exited" => exitCode = <<1>> /\ uncaught = NoValue

C1_Witness ==
    /\ pc = "exited"
    /\ argv.post_install
    /\ success = "None"
    /\ exitCode = <<1>>
    /\ argv.transport = <<"sse">>
    /\ argv.port = <<Port9090>>
    /\ argv.host # <<>>
    /\ argv.path # <<>>

\* C2: with --post-install set and run_post_install() returning a true
\* value, the process exits with code 0: the SystemExit(0) raised inside the
\* try block is not taken by "except Exception" (no error is logged, the
\* code is not turned into 1), and mcp.run is never called.
C2_SuccessfulProvisioningExitsZero ==
    (mainCalled /\ argv.post_install /\ success \in {"True", "1"}) =>
        /\ runCalls = <<>>
        /\ "Error during post-installation" \notin errorLog
        /\ exitCode \in {NoExit, <<0>>}
        /\ pc \in {"propagate", "exited"} => exc = [cls |-> "SystemExit", code |-> 0]
        /\ pc = "exited" => exitCode = <<0>> /\ uncaught = NoValue

C2_Witness ==
    /\ pc = "exited"
    /\ argv.post_install
    /\ success = "1"
    /\ exitCode = <<0>>
    /\ errorLog = {}

C4_HttpTransportKwargs ==
    /\ mainCalled => Len(runCalls) <= 1
    /\ (/\ ServedFromMain
        /\ ~argv.post_install
        /\ argv.transport \in {<<"streamable-http">>, <<"sse">>}) =>
          /\ runCalls = << RequestedKwargs >>
          /\ (argv.transport = <<"streamable-http">> /\ argv.port = <<Port9090>>)
                => runCalls[1].port = 9090

C4_Witness ==
    /\ ServedFromMain
    /\ argv.transport = <<"streamable-http">>
    /\ argv.port = <<Port9090>>
    /\ argv.host = <<>>
    /\ argv.path = <<>>
    /\ runCalls = << [transport |-> "streamable-http", host |-> "127.0.0.1",
                      port |-> 9090, path |-> "/mcp"] >>

\* C5: without --post-install and without --transport, the parsed transport
\* is stdio and main() calls mcp.run exactly once with no host, port or path
\* argument, whatever --host, --port and --path were given.
C5_DefaultTransportIsStdio ==
    (mainCalled /\ ~argv.post_install /\ argv.transport = <<>>) =>
        /\ args # NoArgs => args.transport = "stdio"
        /\ pc = "serving" =>
              /\ Len(runCalls) = 1
              /\ DOMAIN runCalls[1] = {}

C5_Witness ==
    /\ ServedFromMain
    /\ argv.transport = <<>>
    /\ argv.host = <<"0.0.0.0">>
    /\ argv.port = <<Port9090>>
    /\ argv.path = <<"/api">>
    /\ Len(runCalls) = 1

ExpectedChain == << "validation", "telemetry", "error_handling" >>

ModuleBodyDone == pc \notin {"load", "rejected", "module"} \/ (pc = "module" /\ ip > 3)

\* C6: the middleware chain is built validation, telemetry, error handling
\* in that order, and once built stays exactly that three-element sequence in
\* every later state of the provisioning path and of the serve path.
C6_MiddlewareOrderFixed ==
    /\ Len(middleware) <= 3
    /\ middleware = SubSeq(ExpectedChain, 1, Len(middleware))
    /\ ModuleBodyDone => middleware = ExpectedChain

C6_Witness ==
    /\ pc = "exited"
    /\ mainCalled
    /\ success # NoValue
    /\ middleware = ExpectedChain

ExpectedRegistrations ==
    [i \in 1..17 |-> [kind |-> "tool", name |-> ToolModules[i]]]
    \o << [kind |-> "resource", name |-> "models"],
          [kind |-> "prompt", name |-> "remove_background"] >>

\* C7: every add_middleware, register_tool, register_resource and
\* register_prompt call happens before any mcp.run call: in every state where
\* mcp.run has been called the chain and the registry are complete, and they
\* hold nothing beyond the import-time registrations.
C7_RegistryCompleteBeforeRun ==
    runCalls # <<>> =>
        /\ middleware = ExpectedChain
        /\ regLog = ExpectedRegistrations

C7_Witness ==
    /\ pc = "serving"
    /\ runCalls # <<>>
    /\ Len(regLog) = 19
    /\ Len(middleware) = 3

CapabilityNames ==
    { "blur", "change_color", "config", "crop", "detect", "draw_arrows",
      "draw_circle", "draw_lines", "draw_rectangle", "draw_text", "fill",
      "find", "metainfo", "ocr", "overlay", "resize", "rotate",
      "models", "remove_background" }

TimesRegistered(name) ==
    Cardinality({ i \in 1..Len(regLog) : regLog[i].name = name })

\* C8: no capability is registered twice, and once the module body has run
\* each of the seventeen tools, the resource models and the prompt
\* remove_background has been registered exactly once.
C8_CapabilitiesRegisteredOnce ==
    /\ \A i \in 1..Len(regLog) : regLog[i].name \in CapabilityNames
    /\ \A n \in CapabilityNames : TimesRegistered(n) <= 1
    /\ pc \in {"imported", "parse", "serving", "exited"} =>
          /\ \A n \in CapabilityNames : TimesRegistered(n) = 1
          /\ Cardinality({ i \in 1..Len(regLog) : regLog[i].kind = "tool" }) = 17

C8_Witness ==
    /\ pc = "imported"
    /\ Len(regLog) = 19
    /\ \A n \in CapabilityNames : TimesRegistered(n) = 1

Finished == pc \in {"rejected", "serving", "exited"}

ProvisioningAttempted == success # NoValue \/ raised # NoValue

\* C9: run through the script entry point (__name__ = "__main__"), the
\* program parses the flags and dispatches on them: with --post-install the
\* provisioning step is attempted and no server starts, otherwise mcp.run is
\* called with the transport, host, port and path the flags selected.
C9_ScriptEntryDispatches ==
    (runName = "__main__" /\ Finished /\ ArgsAccepted(argv)) =>
        IF argv.post_install
        THEN ProvisioningAttempted /\ runCalls = <<>>
        ELSE IF argv.transport \in {<<"streamable-http">>, <<"sse">>}
             THEN runCalls = << RequestedKwargs >>
             ELSE Len(runCalls) = 1 /\ DOMAIN runCalls[1] = {}

ExitZero == exitCode = <<0>> /\ runCalls = <<>>
ExitOne  == exitCode = <<1>> /\ runCalls = <<>>
RunOnce  == exitCode = NoExit /\ Len(runCalls) = 1

\* C10: an execution of main() whose arguments argparse accepts ends in
\* exactly one of exit code 0, exit code 1 or a single mcp.run call; which
\* one is decided by --post-install and the provisioning result alone, and a
\* failed version lookup is caught, changing neither the outcome nor the
\* arguments of mcp.run.
C10_ThreeOutcomes ==
    (mainCalled /\ args # NoArgs) =>
        /\ Len(runCalls) <= 1
        /\ pc # "propagate" \/ exc.cls = "SystemExit"
        /\ uncaught = NoValue
        /\ versionRead = "unknown" <=>
              "Could not read version from package metadata" \in errorLog
        /\ pc \in {"exited", "serving"} =>
              /\ versionRead \in {"ok", "unknown"}
              /\ IF ~argv.post_install
                 THEN /\ RunOnce
                      /\ runCalls[1] =
                            IF argv.transport \in {<<"streamable-http">>, <<"sse">>}
                            THEN RequestedKwargs ELSE NoKwargs
                 ELSE IF success \in {"True", "1"}
                 THEN ExitZero
                 ELSE ExitOne /\ (success \in {"False", "None", "0"} \/ raised # NoValue)

C10_Witness ==
    /\ ServedFromMain
    /\ versionRead = "unknown"
    /\ argv.transport = <<"sse">>
    /\ runCalls = << RequestedKwargs >>

====
